---- MODULE Spec2Model ----
(***************************************************************************)
(* A model of friendlysam/optimization/solvers.py: the solver registry     *)
(* (get_solver), the Pyomo adapter (PyomoSolver.solve and its helpers) and *)
(* the translation of sympy expressions and relations to Pyomo ones.       *)
(*                                                                         *)
(* Three specifications share the variables:                               *)
(*   Spec          one adapter, a sequence of solve calls;                 *)
(*   SpecTranslate the two pure translators applied to bounded inputs;     *)
(*   SpecRegistry  get_solver under every environment of the backends.     *)
(***************************************************************************)
EXTENDS Integers, Sequences, FiniteSets, TLC

VARIABLES
    pc,                  \* position of the running solve call ("idle": none)
    calls,               \* solve calls begun on the adapter
    problem,             \* argument of the running / last call, as iterated
    idx,                 \* position of map() in problem.constraints
    constraint_counter,  \* self._constraint_counter
    var_counter,         \* self._var_counter
    model,               \* self._model
    pyomo_variables,     \* self._pyomo_variables
    result,              \* what self._solver.solve returned
    invoked,             \* the external solver was run during this call
    outcome,             \* how the last finished call ended
    tpc,                 \* SpecTranslate: which translator has been applied
    in_a, in_b,          \* SpecTranslate: the input expressions
    in_bind,             \* SpecTranslate: the binding the translators use
    out,                 \* SpecTranslate: the translator's result
    env,                 \* SpecRegistry: what SolverFactory does per backend
    solver_order,        \* SpecRegistry: the module global solver_order
    got                  \* SpecRegistry: what the last get_solver call did

vars == <<pc, calls, problem, idx, constraint_counter, var_counter, model,
          pyomo_variables, result, invoked, outcome,
          tpc, in_a, in_b, in_bind, out, env, solver_order, got>>

solveVars == <<pc, calls, problem, idx, constraint_counter, var_counter, model,
               pyomo_variables, result, invoked, outcome>>
translateVars == <<tpc, in_a, in_b, in_bind, out>>
registryVars == <<env, solver_order, got>>

---------------------------------------------------------------------------
(* Bounds *)

MaxExp == 2        \* largest exponent of a symbol in a generated monomial
MaxTerms == 2      \* most summands of a generated expression
MaxValue == 3      \* variable values range over -1..MaxValue
MaxCalls == 2      \* solve calls per behaviour
MaxNames == 2      \* most names passed to get_solver / kept in solver_order

Values == -1..MaxValue

---------------------------------------------------------------------------
(* Arithmetic helpers *)

RECURSIVE Pow(_, _)
Pow(b, n) == IF n = 0 THEN 1 ELSE b * Pow(b, n - 1)

RECURSIVE SumSeq(_)
SumSeq(s) == IF s = <<>> THEN 0 ELSE Head(s) + SumSeq(Tail(s))

RECURSIVE ProdSeq(_)
ProdSeq(s) == IF s = <<>> THEN 1 ELSE Head(s) * ProdSeq(Tail(s))

RECURSIVE SortedSeq(_)
SortedSeq(S) ==
    IF S = {} THEN <<>>
    ELSE LET m == CHOOSE x \in S : \A y \in S : x <= y
         IN  <<m>> \o SortedSeq(S \ {m})

Range(s) == {s[i] : i \in DOMAIN s}

Perms(S) == {s \in [1..Cardinality(S) -> S] : Range(s) = S}

---------------------------------------------------------------------------
(* sympy expressions.                                                      *)
(*                                                                         *)
(* An expression is the list of the monomial summands of its tree, each a  *)
(* coefficient and a map from the symbols it mentions to their (positive)  *)
(* exponents, plus the symbols that occur under a non-polynomial operator. *)
(* Like summands are collected by Poly (as_poly), not by the tree.         *)

Symbols == {1, 2}
Coeffs == {-1, 1}

Monomials(S) == UNION {[D -> 1..MaxExp] : D \in SUBSET S}

TermSet == [coeff : Coeffs, exps : Monomials(Symbols)]

Const(c) == [coeff |-> c, exps |-> <<>>]

Expr(ts) == [terms |-> ts, nonpoly |-> {}]

\* expr.atoms(sympy.Symbol)
Atoms(expr) ==
    UNION {DOMAIN expr.terms[i].exps : i \in DOMAIN expr.terms} \cup expr.nonpoly

\* a - b
Sub(a, b) ==
    [terms |-> a.terms \o [i \in DOMAIN b.terms |->
                             [coeff |-> 0 - b.terms[i].coeff, exps |-> b.terms[i].exps]],
     nonpoly |-> a.nonpoly \cup b.nonpoly]

\* the value of one summand / of the expression at the assignment v
EvalTerm(t, v) ==
    LET ds == SortedSeq(DOMAIN t.exps)
    IN  t.coeff * ProdSeq([i \in DOMAIN ds |-> Pow(v[ds[i]], t.exps[ds[i]])])

EvalExpr(expr, v) == SumSeq([i \in DOMAIN expr.terms |-> EvalTerm(expr.terms[i], v)])

\* float(x): every integer the model holds is below 2^31 in size and so is
\* exactly representable as a double
Float(x) == x

---------------------------------------------------------------------------
(* sympy.Poly: expr.as_poly over the sorted symbols, polynomial.terms()    *)

ExpVec(t, symbols) ==
    [i \in DOMAIN symbols |->
        IF symbols[i] \in DOMAIN t.exps THEN t.exps[symbols[i]] ELSE 0]

CoeffOf(expr, symbols, m) ==
    SumSeq([i \in DOMAIN expr.terms |->
              IF ExpVec(expr.terms[i], symbols) = m THEN expr.terms[i].coeff ELSE 0])

\* lexicographic order of two exponent vectors of one length
LexLess(a, b) ==
    \E i \in DOMAIN a : a[i] < b[i] /\ \A j \in 1..(i - 1) : a[j] = b[j]

RECURSIVE LexDescending(_)
LexDescending(M) ==
    IF M = {} THEN <<>>
    ELSE LET top == CHOOSE m \in M : \A o \in M \ {m} : LexLess(o, m)
         IN  <<top>> \o LexDescending(M \ {top})

\* the (exponents, coeff) pairs of the polynomial: the monomials with a
\* nonzero collected coefficient, largest first; the zero polynomial has the
\* one pair (0,...,0), 0
PolyTerms(expr, symbols) ==
    LET all == {ExpVec(expr.terms[i], symbols) : i \in DOMAIN expr.terms}
        nz  == {m \in all : CoeffOf(expr, symbols, m) # 0}
        ms  == LexDescending(nz)
    IN  IF nz = {}
        THEN <<[exponents |-> [i \in DOMAIN symbols |-> 0], coeff |-> 0]>>
        ELSE [k \in DOMAIN ms |->
                [exponents |-> ms[k], coeff |-> CoeffOf(expr, symbols, ms[k])]]

---------------------------------------------------------------------------
(* PyomoSolver._make_pyomo_poly                                            *)
(*                                                                         *)
(* A Pyomo sum is kept as its list of terms, each a float coefficient and  *)
(* the list of the solver variables multiplied to it; a term without       *)
(* factors is a plain float, and a sum of plain floats is a plain float.   *)

Repeat(x, n) == [i \in 1..n |-> x]

\* a variant of Factors that takes a power as a single factor
RECURSIVE FactorsOnce(_, _)
FactorsOnce(variables, exponents) ==
    IF variables = <<>> \/ exponents = <<>> THEN <<>>
    ELSE (IF Head(exponents) # 0 THEN <<Head(variables)>> ELSE <<>>)
         \o FactorsOnce(Tail(variables), Tail(exponents))

RECURSIVE Factors(_, _)
Factors(variables, exponents) ==
    IF variables = <<>> \/ exponents = <<>> THEN <<>>
    ELSE (IF Head(exponents) # 0
          THEN Repeat(Head(variables), Head(exponents))
          ELSE <<>>) \o Factors(Tail(variables), Tail(exponents))

PyomoTerm(variables, pt) ==
    IF \A i \in DOMAIN pt.exponents : pt.exponents[i] = 0
    THEN [coeff |-> Float(pt.coeff), factors |-> <<>>]
    ELSE [coeff |-> Float(pt.coeff), factors |-> Factors(variables, pt.exponents)]

make_pyomo_poly(expr, binding) ==
    LET symbols   == SortedSeq(Atoms(expr))
        variables == [i \in DOMAIN symbols |-> binding[symbols[i]]]
        pts       == PolyTerms(expr, symbols)
    IN  IF Len(symbols) = 0
        THEN [err |-> "none",
              terms |-> <<[coeff |-> Float(EvalExpr(expr, <<>>)), factors |-> <<>>]>>]
        ELSE IF expr.nonpoly # {}
        THEN [err |-> "ValueError", terms |-> <<>>]
        ELSE [err |-> "none",
              terms |-> [k \in DOMAIN pts |-> PyomoTerm(variables, pts[k])]]

\* the value of a Pyomo sum when the solver variable x has the value nv[x]
EvalPyomo(terms, nv) ==
    SumSeq([k \in DOMAIN terms |->
              terms[k].coeff *
              ProdSeq([j \in DOMAIN terms[k].factors |-> nv[terms[k].factors[j]]])])

IsFloat(terms) == \A k \in DOMAIN terms : terms[k].factors = <<>>

---------------------------------------------------------------------------
(* PyomoSolver._make_pyomo_relation                                        *)

RelOps == {"LessThan", "GreaterThan", "Equality",
           "StrictLessThan", "StrictGreaterThan", "Unequality"}

Rel(op, a, b) == [op |-> op, a |-> a, b |-> b]

NonStrict == {"LessThan", "GreaterThan", "Equality"}

Holds(op, x, y) ==
    CASE op = "LessThan"          -> x <= y
      [] op = "GreaterThan"       -> x >= y
      [] op = "Equality"          -> x = y
      [] op = "StrictLessThan"    -> x < y
      [] op = "StrictGreaterThan" -> x > y
      [] OTHER                    -> x # y

\* poly <op> 0: a Python bool when poly is a plain float, else a Pyomo
\* relational expression
Compare(poly, op) ==
    IF poly.err # "none"
    THEN [err |-> poly.err, kind |-> "none", body |-> <<>>, op |-> "none", value |-> FALSE]
    ELSE IF IsFloat(poly.terms)
    THEN [err |-> "none", kind |-> "bool", body |-> <<>>, op |-> op,
          value |-> Holds(op, EvalPyomo(poly.terms, <<>>), 0)]
    ELSE [err |-> "none", kind |-> "rel", body |-> poly.terms, op |-> op, value |-> FALSE]

Failed(e) == [err |-> e, kind |-> "none", body |-> <<>>, op |-> "none", value |-> FALSE]

\* a variant of make_pyomo_relation that turns a >= b into a - b <= 0
make_pyomo_relation_flipped(expr, binding) ==
    IF expr.op = "LessThan"
    THEN Compare(make_pyomo_poly(Sub(expr.a, expr.b), binding), "LessThan")
    ELSE IF expr.op = "GreaterThan"
    THEN Compare(make_pyomo_poly(Sub(expr.a, expr.b), binding), "LessThan")
    ELSE IF expr.op = "Equality"
    THEN Compare(make_pyomo_poly(Sub(expr.a, expr.b), binding), "Equality")
    ELSE Failed("PyomoExpressionError")

\* a variant of make_pyomo_relation that relaxes a strict comparator
make_pyomo_relation_relaxed(expr, binding) ==
    IF expr.op = "LessThan" \/ expr.op = "StrictLessThan"
    THEN Compare(make_pyomo_poly(Sub(expr.a, expr.b), binding), "LessThan")
    ELSE IF expr.op = "GreaterThan" \/ expr.op = "StrictGreaterThan"
    THEN Compare(make_pyomo_poly(Sub(expr.a, expr.b), binding), "GreaterThan")
    ELSE IF expr.op = "Equality"
    THEN Compare(make_pyomo_poly(Sub(expr.a, expr.b), binding), "Equality")
    ELSE Failed("PyomoExpressionError")

make_pyomo_relation(expr, binding) ==
    IF expr.op = "LessThan"
    THEN Compare(make_pyomo_poly(Sub(expr.a, expr.b), binding), "LessThan")
    ELSE IF expr.op = "GreaterThan"
    THEN Compare(make_pyomo_poly(Sub(expr.a, expr.b), binding), "GreaterThan")
    ELSE IF expr.op = "Equality"
    THEN Compare(make_pyomo_poly(Sub(expr.a, expr.b), binding), "Equality")
    ELSE IF expr.op = "StrictGreaterThan" \/ expr.op = "StrictLessThan"
    THEN Failed("PyomoExpressionError")
    ELSE Failed("PyomoExpressionError")

\* whether the translated constraint holds when solver variable x is nv[x]
Satisfies(r, nv) ==
    IF r.kind = "bool" THEN r.value ELSE Holds(r.op, EvalPyomo(r.body, nv), 0)

---------------------------------------------------------------------------
(* The state of an adapter and of a solve call                             *)

\* pyomo.environ.Var(): the object made by the n-th _add_var of a call
NewVar(call, n) == [call |-> call, n |-> n]

NoBound == {}
NoObjective == [set |-> FALSE, expr |-> <<>>, sense |-> "none"]

\* pyomo.environ.ConcreteModel(): attributes v<n>, obj and c<n>
EmptyModel == [vars |-> <<>>, obj |-> NoObjective, cons |-> <<>>]

NoProblem == [variables |-> <<>>, objective |-> Expr(<<>>), sense |-> "none",
              constraints |-> <<>>]
NoResult == [status |-> "none", values |-> <<>>]
NoOutcome == [kind |-> "none", error |-> "none", status |-> "none", solution |-> <<>>]

SolveIdle ==
    /\ pc = "idle"
    /\ calls = 0
    /\ problem = NoProblem
    /\ idx = 0
    /\ constraint_counter = 0
    /\ var_counter = 0
    /\ model = EmptyModel
    /\ pyomo_variables = <<>>
    /\ result = NoResult
    /\ invoked = FALSE
    /\ outcome = NoOutcome

NoOut == [fn |-> "none", op |-> "none",
          poly |-> [err |-> "none", terms |-> <<>>], rel |-> Failed("none")]

TranslateIdle ==
    /\ tpc = "off"
    /\ in_a = Expr(<<>>)
    /\ in_b = Expr(<<>>)
    /\ in_bind = <<>>
    /\ out = NoOut

NoGot == [names |-> <<>>, kind |-> "none", name |-> "none", usable |-> FALSE,
          constructed |-> <<>>]

RegistryIdle ==
    /\ env = <<>>
    /\ solver_order = <<>>
    /\ got = NoGot

---------------------------------------------------------------------------
(* The problems handed to solve                                            *)

\* test_sos.py: n = 4 variables, each Variable(lb=-1, domain=Domain.integer)
n == 4
Variable(x) == [lb |-> {-1}, ub |-> NoBound, domain |-> "integer"]

Mono(c, e) == [coeff |-> c, exps |-> e]
X(i) == Mono(1, i :> 1)
NonPoly(x) == [terms |-> <<>>, nonpoly |-> {x}]

NoRel == Rel("none", Expr(<<>>), Expr(<<>>))

\* Constraint(expr) / a bare sympy relation / SOS1(vs) / SOS2(vs) / any other
RelConstraint(r) == [kind |-> "RelConstraint", expr |-> r, vars |-> <<>>]
SympyRel(r) == [kind |-> "Rel", expr |-> r, vars |-> <<>>]
SOS1Constraint(vs) == [kind |-> "SOS1Constraint", expr |-> NoRel, vars |-> vs]
SOS2Constraint(vs) == [kind |-> "SOS2Constraint", expr |-> NoRel, vars |-> vs]
OtherConstraint == [kind |-> "other", expr |-> NoRel, vars |-> <<>>]

Problem(vs, objective, sense, cs) ==
    [variables |-> vs, objective |-> objective, sense |-> sense, constraints |-> cs]

\* test_simple_SOS1: sum(vs) == 3, SOS1(vs), minimize the weighted sum with
\* weights 1, 1, 0.5, 1; the objective is kept doubled, 2, 2, 1, 2, so that
\* its coefficients are integers; its minimisers are the same.  The source's
\* index = 2 counts from 0: it is the third variable.
index == 3
sum_val == 3
SumVs == Expr([i \in 1..n |-> X(i)])
Weighted == Expr([i \in 1..n |-> Mono(IF i = index THEN 1 ELSE 2, i :> 1)])
TestSOS1 ==
    Problem(1..n, Weighted, "minimize",
            {SOS1Constraint([i \in 1..n |-> i]),
             RelConstraint(Rel("Equality", SumVs, Expr(<<Const(sum_val)>>)))})

\* x1 + x2 >= 1 and x1^2 + x2 <= 2, minimize x1 + x2
Quadratic ==
    Problem({1, 2}, Expr(<<X(1), X(2)>>), "minimize",
            {RelConstraint(Rel("GreaterThan", Expr(<<X(1), X(2)>>), Expr(<<Const(1)>>))),
             SympyRel(Rel("LessThan", Expr(<<Mono(1, 1 :> 2), X(2)>>), Expr(<<Const(2)>>)))})

\* x >= 5 and x <= 1
Contradictory ==
    Problem({1}, Expr(<<X(1)>>), "maximize",
            {RelConstraint(Rel("GreaterThan", Expr(<<X(1)>>), Expr(<<Const(5)>>))),
             RelConstraint(Rel("LessThan", Expr(<<X(1)>>), Expr(<<Const(1)>>)))})

\* no constraint, a constant objective
Unconstrained == Problem({1, 2}, Expr(<<Const(2)>>), "maximize", {})

StrictLess ==
    Problem({1, 2}, Expr(<<X(1)>>), "minimize",
            {RelConstraint(Rel("GreaterThan", Expr(<<X(1)>>), Expr(<<>>))),
             RelConstraint(Rel("StrictLessThan", Expr(<<X(1)>>), Expr(<<X(2)>>)))})

StrictGreater ==
    Problem({1, 2}, Expr(<<X(2)>>), "minimize",
            {SympyRel(Rel("StrictGreaterThan", Expr(<<X(1)>>), Expr(<<X(2)>>))),
             RelConstraint(Rel("LessThan", Expr(<<X(2)>>), Expr(<<Const(1)>>)))})

Unequal ==
    Problem({1, 2}, Expr(<<X(1)>>), "minimize",
            {RelConstraint(Rel("Unequality", Expr(<<X(1)>>), Expr(<<X(2)>>)))})

NonPolyObjective ==
    Problem({1}, NonPoly(1), "minimize",
            {RelConstraint(Rel("LessThan", Expr(<<X(1)>>), Expr(<<Const(1)>>)))})

NonPolyConstraint ==
    Problem({1, 2}, Expr(<<X(1)>>), "minimize",
            {RelConstraint(Rel("LessThan", NonPoly(2), Expr(<<X(1)>>))),
             RelConstraint(Rel("Equality", Expr(<<X(1)>>), Expr(<<X(2)>>)))})

\* a relation whose two sides differ by a constant: x1 + 1 <= x1 as trees
Trivial ==
    Problem({1}, Expr(<<X(1)>>), "minimize",
            {RelConstraint(Rel("GreaterThan", Expr(<<X(1)>>), Expr(<<Const(-1)>>))),
             RelConstraint(Rel("LessThan", Expr(<<X(1), Const(1)>>), Expr(<<X(1)>>)))})

WithSOS2 ==
    Problem({1, 2}, Expr(<<X(1), X(2)>>), "maximize",
            {SOS2Constraint(<<1, 2>>),
             RelConstraint(Rel("LessThan", Expr(<<X(1)>>), Expr(<<Const(1)>>)))})

WithOther == Problem({1}, Expr(<<X(1)>>), "minimize", {OtherConstraint})

Problems == {TestSOS1, Quadratic, Contradictory, Unconstrained, StrictLess,
             StrictGreater, Unequal, NonPolyObjective, NonPolyConstraint,
             Trivial, WithSOS2, WithOther}

---------------------------------------------------------------------------
(* PyomoSolver: _add_var, _get_constraint_name, _set_objective,            *)
(* _add_constraint                                                         *)

\* self._var_counter += 1; the Var() is attached as v<counter>
add_var(call, counter, mdl) ==
    LET c   == counter + 1
        var == NewVar(call, c)
    IN  [counter |-> c,
         var |-> var,
         model |-> [mdl EXCEPT !.vars =
                       (c :> [var |-> var, lb |-> NoBound, ub |-> NoBound,
                              domain |-> "Reals", value |-> {}]) @@ @]]

\* {v: self._add_var() for v in problem.variables}, vs the iteration order
RECURSIVE BindAll(_, _, _, _, _)
BindAll(vs, call, counter, mdl, binding) ==
    IF vs = <<>>
    THEN [counter |-> counter, model |-> mdl, binding |-> binding]
    ELSE LET a == add_var(call, counter, mdl)
         IN  BindAll(Tail(vs), call, a.counter, a.model,
                     (Head(vs) :> a.var) @@ binding)

\* a variant of get_constraint_name without the increment
get_constraint_name_stuck(counter) == counter

\* self._constraint_counter += 1; the name is c<counter>
get_constraint_name(counter) == counter + 1

SenseTranslation(sense) ==
    IF sense = "minimize" THEN "pyomo.minimize" ELSE "pyomo.maximize"

set_objective(p, mdl, binding) ==
    LET expr == make_pyomo_poly(p.objective, binding)
    IN  IF expr.err # "none"
        THEN [err |-> expr.err, model |-> mdl]
        ELSE [err |-> "none",
              model |-> [mdl EXCEPT !.obj =
                            [set |-> TRUE, expr |-> expr.terms,
                             sense |-> SenseTranslation(p.sense)]]]

add_constraint(c, counter, mdl, binding) ==
    IF c.kind = "RelConstraint" \/ c.kind = "Rel"
    THEN LET expr == make_pyomo_relation(c.expr, binding)
             name == get_constraint_name(counter)
         IN  IF expr.err # "none"
             THEN [err |-> expr.err, counter |-> counter, model |-> mdl]
             ELSE IF expr.kind = "bool"
             THEN [err |-> "ValueError", counter |-> name, model |-> mdl]
             ELSE [err |-> "none", counter |-> name,
                   model |-> [mdl EXCEPT !.cons = (name :> expr) @@ @]]
    ELSE IF c.kind = "SOS1Constraint"
    THEN [err |-> "NotImplementedError", counter |-> counter, model |-> mdl]
    ELSE IF c.kind = "SOS2Constraint"
    THEN [err |-> "NotImplementedError", counter |-> counter, model |-> mdl]
    ELSE [err |-> "NotImplementedError", counter |-> counter, model |-> mdl]

---------------------------------------------------------------------------
(* PyomoSolver.solve, one action per stretch between its external calls    *)

Statuses == {"optimal", "infeasible", "unbounded", "error", "stoppedByLimit"}

\* a variant of StatusAccepted that also takes a solution cut off by a limit
StatusAcceptedOrLimit(status) == status \in {"optimal", "stoppedByLimit"}

StatusAccepted(status) == status = "optimal"

\* a variant of MapDone for a map that is never iterated
MapDoneLazy(i, constraints) == TRUE

\* map(self._add_constraint, problem.constraints) has consumed its input
MapDone(i, constraints) == i > Len(constraints)

\* self._model.load(result)
Load(mdl, values) ==
    [mdl EXCEPT !.vars = [k \in DOMAIN @ |-> [@[k] EXCEPT !.value = {values[k]}]]]

\* a variant of Solution that keeps only the variables with a true value
SolutionTruthy(binding, mdl) ==
    [key \in {k \in DOMAIN binding : mdl.vars[binding[k].n].value \notin {{}, {0}}} |->
        mdl.vars[binding[key].n].value]

\* {key: variable.value for key, variable in self._pyomo_variables.items()}
Solution(binding, mdl) ==
    [key \in DOMAIN binding |-> mdl.vars[binding[key].n].value]

Raised(e, status) ==
    [kind |-> "raised", error |-> e, status |-> status, solution |-> <<>>]

Returned(solution) ==
    [kind |-> "returned", error |-> "none", status |-> "none", solution |-> solution]

\* solve is entered: the counters are reset, a new model is made and the
\* variables are bound in the iteration order of problem.variables
SolveStart ==
    \E p \in Problems :
    \E vs \in Perms(p.variables) :
    \E cs \in Perms(p.constraints) :
        LET b == BindAll(vs, calls + 1, 0, EmptyModel, <<>>)
        IN  /\ pc = "idle"
            /\ calls < MaxCalls
            /\ calls' = calls + 1
            /\ problem' = Problem(vs, p.objective, p.sense, cs)
            /\ constraint_counter' = 0
            /\ var_counter' = b.counter
            /\ model' = b.model
            /\ pyomo_variables' = b.binding
            /\ idx' = 0
            /\ result' = NoResult
            /\ invoked' = FALSE
            /\ outcome' = NoOutcome
            /\ pc' = "objective"
            /\ UNCHANGED <<translateVars, registryVars>>

\* self._set_objective(problem)
SetObjective ==
    LET r == set_objective(problem, model, pyomo_variables)
    IN  /\ pc = "objective"
        /\ model' = r.model
        /\ IF r.err = "none"
           THEN /\ pc' = "constraints"
                /\ idx' = 1
                /\ outcome' = outcome
           ELSE /\ pc' = "idle"
                /\ idx' = idx
                /\ outcome' = Raised(r.err, "none")
        /\ UNCHANGED <<calls, problem, constraint_counter, var_counter,
                       pyomo_variables, result, invoked,
                       translateVars, registryVars>>

\* one step of map(self._add_constraint, problem.constraints)
AddConstraint ==
    /\ pc = "constraints"
    /\ ~MapDone(idx, problem.constraints)
    /\ LET r == add_constraint(problem.constraints[idx], constraint_counter,
                               model, pyomo_variables)
       IN  /\ model' = r.model
           /\ constraint_counter' = r.counter
           /\ IF r.err = "none"
              THEN /\ pc' = "constraints"
                   /\ idx' = idx + 1
                   /\ outcome' = outcome
              ELSE /\ pc' = "idle"
                   /\ idx' = idx
                   /\ outcome' = Raised(r.err, "none")
    /\ UNCHANGED <<calls, problem, var_counter, pyomo_variables, result, invoked,
                   translateVars, registryVars>>

\* self._model.preprocess(); result = self._solver.solve(self._model): the
\* external solver reports any status and any value per variable of the model
InvokeSolver ==
    \E status \in Statuses :
    \E values \in [DOMAIN model.vars -> Values] :
        /\ pc = "constraints"
        /\ MapDone(idx, problem.constraints)
        /\ result' = [status |-> status, values |-> values]
        /\ invoked' = TRUE
        /\ pc' = "status"
        /\ UNCHANGED <<calls, problem, idx, constraint_counter, var_counter, model,
                       pyomo_variables, outcome, translateVars, registryVars>>

\* the status check, self._model.load(result) and the returned dict
CheckStatus ==
    /\ pc = "status"
    /\ IF ~StatusAccepted(result.status)
       THEN /\ outcome' = Raised("SolverError", result.status)
            /\ model' = model
       ELSE /\ model' = Load(model, result.values)
            /\ outcome' = Returned(Solution(pyomo_variables, model'))
    /\ pc' = "idle"
    /\ UNCHANGED <<calls, problem, idx, constraint_counter, var_counter,
                   pyomo_variables, result, invoked, translateVars, registryVars>>

Init ==
    /\ SolveIdle
    /\ TranslateIdle
    /\ RegistryIdle

Next == SolveStart \/ SetObjective \/ AddConstraint \/ InvokeSolver \/ CheckStatus

Spec == Init /\ [][Next]_vars

---------------------------------------------------------------------------
(* Properties of solve                                                     *)

Started == calls > 0
Finished == pc = "idle" /\ calls > 0
IsRelation(c) == c.kind = "RelConstraint" \/ c.kind = "Rel"
Strict == {"StrictLessThan", "StrictGreaterThan"}

\* C1: when solve returns, the keys of the returned mapping are exactly the
\* problem's variables, and each key carries the value the solver reported
\* for the solver variable bound to it.
C1_SolutionKeys ==
    outcome.kind = "returned" =>
        /\ DOMAIN outcome.solution = Range(problem.variables)
        /\ \A x \in Range(problem.variables) :
              outcome.solution[x] = {result.values[pyomo_variables[x].n]}

C1_Witness ==
    /\ outcome.kind = "returned"
    /\ Len(problem.variables) = 2
    /\ outcome.solution[1] = {0}
    /\ outcome.solution[2] = {3}

\* C2: a solver status other than optimal makes solve raise SolverError
\* carrying that status, with no mapping returned; a mapping is returned
\* only for the status optimal.
C2_OnlyOptimal ==
    /\ (Finished /\ result.status \notin {"none", "optimal"}) =>
          outcome = Raised("SolverError", result.status)
    /\ outcome.kind = "returned" => result.status = "optimal"

C2_Witness ==
    /\ Finished
    /\ result.status = "stoppedByLimit"
    /\ outcome.error = "SolverError"
    /\ outcome.status = "stoppedByLimit"

\* C5: dispatching a relation with a strict comparator ends the call with
\* PyomoExpressionError, attaches nothing to the model, leaves the
\* constraint counter as it was and never reaches the solver.
C5_StrictRejected ==
    [][(/\ pc = "constraints"
        /\ idx <= Len(problem.constraints)
        /\ IsRelation(problem.constraints[idx])
        /\ problem.constraints[idx].expr.op \in Strict)
       => (/\ pc' = "idle"
           /\ outcome' = Raised("PyomoExpressionError", "none")
           /\ model' = model
           /\ constraint_counter' = constraint_counter
           /\ invoked' = FALSE)]_vars

C5_Witness ==
    /\ Finished
    /\ outcome.error = "PyomoExpressionError"
    /\ problem.constraints[idx].expr.op = "StrictLessThan"
    /\ idx = 2
    /\ constraint_counter = 1
    /\ DOMAIN model.cons = {1}

PyomoDomain(domain) ==
    CASE domain = "integer" -> "Integers"
      [] domain = "binary"  -> "Binary"
      [] OTHER              -> "Reals"

\* C6: every problem variable is bound to one solver variable of its own,
\* which carries the variable's declared lower bound, upper bound and
\* domain.
C6_BoundsCarried ==
    Started =>
        /\ DOMAIN pyomo_variables = Range(problem.variables)
        /\ \A x, y \in DOMAIN pyomo_variables :
              pyomo_variables[x] = pyomo_variables[y] => x = y
        /\ \A x \in DOMAIN pyomo_variables :
              LET v == model.vars[pyomo_variables[x].n]
              IN  /\ v.lb = Variable(x).lb
                  /\ v.ub = Variable(x).ub
                  /\ v.domain = PyomoDomain(Variable(x).domain)

IsTestSOS1 ==
    /\ Range(problem.variables) = TestSOS1.variables
    /\ problem.objective = TestSOS1.objective
    /\ problem.sense = TestSOS1.sense
    /\ Range(problem.constraints) = TestSOS1.constraints

\* C8: solving the problem of test_simple_SOS1 succeeds, and the returned
\* solution gives the variable of weight 0.5 the value 3 and every other
\* variable the value 0.
C8_SOS1Solved ==
    (Finished /\ IsTestSOS1) =>
        /\ outcome.kind = "returned"
        /\ outcome.solution = [i \in 1..n |-> IF i = index THEN {sum_val} ELSE {0}]

Untranslatable(c) ==
    \/ ~IsRelation(c)
    \/ c.expr.op \notin NonStrict
    \/ c.expr.a.nonpoly # {}
    \/ c.expr.b.nonpoly # {}

ScopeOfCall ==
    Started =>
        /\ var_counter = Len(problem.variables)
        /\ DOMAIN model.vars = 1..Len(problem.variables)
        /\ DOMAIN pyomo_variables = Range(problem.variables)
        /\ \A x, y \in DOMAIN pyomo_variables :
              pyomo_variables[x] = pyomo_variables[y] => x = y
        /\ {pyomo_variables[x].n : x \in DOMAIN pyomo_variables} = DOMAIN model.vars
        /\ \A x \in DOMAIN pyomo_variables :
              /\ pyomo_variables[x].call = calls
              /\ model.vars[pyomo_variables[x].n].var = pyomo_variables[x]
        /\ DOMAIN model.cons = 1..Cardinality(DOMAIN model.cons)
        /\ Cardinality(DOMAIN model.cons) <= constraint_counter
        /\ constraint_counter <= Len(problem.constraints)
        /\ \A i \in DOMAIN model.cons :
              /\ model.cons[i] =
                    make_pyomo_relation(problem.constraints[i].expr, pyomo_variables)
              /\ \A k \in DOMAIN model.cons[i].body :
                    \A j \in DOMAIN model.cons[i].body[k].factors :
                       model.cons[i].body[k].factors[j].call = calls
        /\ invoked =>
              /\ DOMAIN model.cons = 1..Len(problem.constraints)
              /\ constraint_counter = Len(problem.constraints)

ScopeKept ==
    Finished => (model # EmptyModel /\ pyomo_variables # <<>>)

ScopeDiscarded ==
    pc = "idle" =>
        /\ model = EmptyModel
        /\ pyomo_variables = <<>>
        /\ var_counter = 0
        /\ constraint_counter = 0

---------------------------------------------------------------------------
(* SpecTranslate: the translators applied to generated inputs              *)

RECURSIVE SetToSeq(_)
SetToSeq(S) ==
    IF S = {} THEN <<>>
    ELSE LET x == CHOOSE y \in S : TRUE IN <<x>> \o SetToSeq(S \ {x})

TermSeq == SetToSeq(TermSet)

\* sums of at most MaxTerms summands, in the one order sympy keeps them in
NonDecreasing(len, top) ==
    {s \in UNION {[1..k -> 1..top] : k \in 0..len} :
        \A i \in 1..(Len(s) - 1) : s[i] <= s[i + 1]}

GenExprs == {Expr([i \in DOMAIN s |-> TermSeq[s[i]]]) :
                s \in NonDecreasing(MaxTerms, Len(TermSeq))}

\* right-hand sides: nothing, or one summand of coefficient 1 and exponents 1
RhsExprs == {Expr(<<>>)} \cup
            {Expr(<<t>>) : t \in {u \in TermSet :
                 u.coeff = 1 /\ \A x \in DOMAIN u.exps : u.exps[x] = 1}}

\* the bindings that number the solver variables against the symbol order
Bindings == {[x \in Symbols |-> NewVar(0, p[x])] :
                p \in {q \in Perms(Symbols) : q[1] # 1}}

TInit ==
    /\ SolveIdle
    /\ RegistryIdle
    /\ tpc = "input"
    /\ in_a \in GenExprs
    /\ in_b \in RhsExprs
    /\ in_bind \in Bindings
    /\ out = NoOut

ApplyPoly ==
    /\ tpc = "input"
    /\ tpc' = "poly"
    /\ out' = [NoOut EXCEPT !.fn = "poly", !.poly = make_pyomo_poly(in_a, in_bind)]
    /\ UNCHANGED <<in_a, in_b, in_bind, solveVars, registryVars>>

ApplyRelation ==
    \E op \in RelOps :
        /\ tpc = "input"
        /\ tpc' = "relation"
        /\ out' = [NoOut EXCEPT !.fn = "relation", !.op = op,
                      !.rel = make_pyomo_relation(Rel(op, in_a, in_b), in_bind)]
        /\ UNCHANGED <<in_a, in_b, in_bind, solveVars, registryVars>>

TNext == ApplyPoly \/ ApplyRelation

SpecTranslate == TInit /\ [][TNext]_vars

\* the values of the solver variables when symbol x has the value v[x]
Bound(binding, v) ==
    [y \in Range(binding) |-> v[CHOOSE x \in DOMAIN binding : binding[x] = y]]

Assignments == [Symbols -> Values]

\* C3: _make_pyomo_poly is value-preserving: at every assignment the
\* polynomial expression and its translated sum have the same value; an
\* expression without symbols becomes one constant term, and a term with
\* factors has, for each symbol, as many factors of its solver variable as
\* the exponent of the symbol in a monomial of the expression.
C3_PolyValuePreserved ==
    tpc = "poly" =>
        /\ out.poly.err = "none"
        /\ \A v \in Assignments :
              EvalExpr(in_a, v) = EvalPyomo(out.poly.terms, Bound(in_bind, v))
        /\ Atoms(in_a) = {} =>
              /\ Len(out.poly.terms) = 1
              /\ out.poly.terms[1].factors = <<>>
        /\ \A k \in DOMAIN out.poly.terms :
              \/ out.poly.terms[k].factors = <<>>
              \/ \E i \in DOMAIN in_a.terms :
                    \A x \in Symbols :
                       Cardinality({j \in DOMAIN out.poly.terms[k].factors :
                                       out.poly.terms[k].factors[j] = in_bind[x]})
                          = ExpVec(in_a.terms[i], <<x>>)[1]

C3_Witness ==
    /\ tpc = "poly"
    /\ Len(in_a.terms) = 2
    /\ \E k \in DOMAIN out.poly.terms : Len(out.poly.terms[k].factors) >= 3
    /\ \E v \in Assignments : EvalExpr(in_a, v) # 0

\* C4: _make_pyomo_relation keeps the comparator and the solution set: for
\* a non-strict relation a cmp b the result compares the translation of
\* a - b with 0 by the same cmp, and an assignment satisfies the result
\* exactly when it satisfies the relation.
C4_RelationEquivalent ==
    (tpc = "relation" /\ out.op \in NonStrict) =>
        /\ out.rel.err = "none"
        /\ out.rel.op = out.op
        /\ out.rel.kind = "rel" =>
              out.rel.body = make_pyomo_poly(Sub(in_a, in_b), in_bind).terms
        /\ \A v \in Assignments :
              Satisfies(out.rel, Bound(in_bind, v))
                 <=> Holds(out.op, EvalExpr(in_a, v), EvalExpr(in_b, v))

C4_Witness ==
    /\ tpc = "relation"
    /\ out.op = "GreaterThan"
    /\ out.rel.kind = "rel"
    /\ Atoms(in_b) # {}
    /\ \E v \in Assignments : Satisfies(out.rel, Bound(in_bind, v))
    /\ \E v \in Assignments : ~Satisfies(out.rel, Bound(in_bind, v))

---------------------------------------------------------------------------
(* get_solver and the construction of the adapters                         *)

DEFAULT_SOLVER_ORDER == <<"gurobi", "cbc">>

\* the keys of _solver_funcs
Registered == {"gurobi", "cbc"}

\* the names a caller may pass: the registered ones and one that is not
Names == Registered \cup {"glpk"}

\* what pyomo's SolverFactory does for a backend: it returns a working
\* solver object ("ok"), returns an object for a solver that cannot run
\* ("unavailable"), or raises an exception of its own ("error")
Backend == {"ok", "unavailable", "error"}

\* _solver_funcs[name](): PyomoSolver.__init__ calls SolverFactory and does
\* nothing else; no statement of the module raises SolverNotAvailableError
Construct(name, e) ==
    IF name \notin Registered
    THEN [raised |-> "KeyError", name |-> name, usable |-> FALSE]
    ELSE IF e[name] = "error"
    THEN [raised |-> "Exception", name |-> name, usable |-> FALSE]
    ELSE [raised |-> "none", name |-> name, usable |-> e[name] = "ok"]

RECURSIVE TryNames(_, _, _, _)
TryNames(all, rest, e, constructed) ==
    IF rest = <<>>
    THEN [names |-> all, kind |-> "returned None", name |-> "none",
          usable |-> FALSE, constructed |-> constructed]
    ELSE LET r == Construct(Head(rest), e)
         IN  IF r.raised = "SolverNotAvailableError"
             THEN TryNames(all, Tail(rest), e, Append(constructed, Head(rest)))
             ELSE IF r.raised # "none"
             THEN [names |-> all, kind |-> "raised", name |-> r.raised,
                   usable |-> FALSE,
                   constructed |-> Append(constructed, Head(rest))]
             ELSE [names |-> all, kind |-> "returned", name |-> r.name,
                   usable |-> r.usable,
                   constructed |-> Append(constructed, Head(rest))]

get_solver(names, order, e) ==
    LET ns == IF Len(names) = 0 THEN order ELSE names
    IN  TryNames(ns, ns, e, <<>>)

NameSeqs == UNION {[1..k -> Names] : k \in 0..MaxNames}

RInit ==
    /\ SolveIdle
    /\ TranslateIdle
    /\ env \in [Registered -> Backend]
    /\ solver_order = DEFAULT_SOLVER_ORDER
    /\ got = NoGot

\* the caller configures the module global solver_order
SetSolverOrder ==
    \E order \in NameSeqs :
        /\ solver_order' = order
        /\ UNCHANGED <<env, got, solveVars, translateVars>>

GetSolver ==
    \E names \in NameSeqs :
        /\ got' = get_solver(names, solver_order, env)
        /\ UNCHANGED <<env, solver_order, solveVars, translateVars>>

RNext == SetSolverOrder \/ GetSolver

SpecRegistry == RInit /\ [][RNext]_vars

\* C7: get_solver returns the adapter of the first candidate whose backend
\* is available, having constructed no later candidate; with an unavailable
\* primary and an available secondary it returns the secondary, and with
\* every candidate unavailable it returns no solver.  (Candidates are
\* registered names whose SolverFactory call raises nothing.)
C7_FirstAvailable ==
    (/\ got.kind # "none"
     /\ \A i \in DOMAIN got.names :
           got.names[i] \in Registered /\ env[got.names[i]] # "error")
    => LET avail == {i \in DOMAIN got.names : env[got.names[i]] = "ok"}
       IN  IF avail = {}
           THEN got.kind = "returned None"
           ELSE LET first == CHOOSE i \in avail : \A j \in avail : i <= j
                IN  /\ got.kind = "returned"
                    /\ got.name = got.names[first]
                    /\ got.usable
                    /\ got.constructed = SubSeq(got.names, 1, first)

====
